---- MODULE Spec2Model ----
(***************************************************************************)
(* Model of scrape_benchmark.py: the GraphQL search pagination loop        *)
(* (search_listings), the rating/badge extraction                          *)
(* (extract_ratings_and_badges) and the run driver (main).                 *)
(*                                                                         *)
(* The specifications share the variables:                                 *)
(*   Spec        search_listings alone, against an arbitrary upstream;     *)
(*   SpecFilters search_listings with the filters of each configuration;   *)
(*   SpecRating  the rating text decomposition applied to bounded texts;   *)
(*   SpecExtract extract_ratings_and_badges applied to bounded inputs;     *)
(*   SpecRun     main: search, enrichment, export;                         *)
(*   SpecMerge   main against a one-page upstream and sparser details.     *)
(*                                                                         *)
(* Text is a sequence of one-token strings, ":" being the colon.  Python's *)
(* None is the string NoneVal where a string is expected.                  *)
(***************************************************************************)
EXTENDS Integers, Sequences, FiniteSets, TLC

VARIABLES
    pc,            \* position of search_listings: "idle", "loop", "await", "returned"
    all_listings,  \* all_listings (line 220)
    cursor,        \* cursor (line 221)
    page_count,    \* page_count (line 222)
    request,       \* the request in flight or last sent: its cursor rawParam
    raw_params,    \* the rawParams of the request in flight or last sent
    filters,       \* the filters argument of search_listings (lines 593-607)
    n_requests,    \* history: number of curl_requests.post calls issued
    resp_next,     \* history: nextPageCursor carried by the latest page response
    page_results,  \* history: searchResults of the latest page response
    outcome,       \* history: how the latest iteration ended
    before_page,   \* history: all_listings when the latest request was sent
    page_new,      \* history: page_listings of the latest page (as far as built)
    first_seen,    \* history: <<room_id, page>> of the first merged page carrying each id
    cross_dup,     \* history: some id was carried again by a later merged page
    ret,           \* value returned by search_listings
    propagated,    \* whether search_listings raised to its caller
    up_pages,      \* environment: the page from which the upstream offers no cursor
    mpc,           \* position of main: "off", "search", "enrich", "export", "done", "empty"
    listings,      \* main's listings (line 637)
    found,         \* history: the summaries as search_listings returned them
    idx,           \* enumerate index of the enrichment loop (line 651)
    success_count, \* line 648
    error_count,   \* line 649
    fetched,       \* history: room_ids handed to get_listing_details, in order
    detail_ok,     \* history: per fetch, whether the success branch (lines 658-661) ran
    exported,      \* rows handed to export_to_csv, <<>> before
    export_calls,  \* history: number of export_to_csv calls
    xin,           \* SpecExtract: the details value under test
    xout,          \* SpecExtract: the outcome of extract_ratings_and_badges
    rating_str,    \* SpecRating: the avgRatingLocalized text under test
    rating_out     \* SpecRating: the avg_rating and reviews_count got from it

searchVars == <<pc, all_listings, cursor, page_count, request, n_requests,
                resp_next, page_results, outcome, before_page, page_new, first_seen, cross_dup, ret,
                propagated, up_pages, raw_params, filters>>
mainVars == <<mpc, listings, found, idx, success_count, error_count, fetched,
              detail_ok, exported, export_calls>>
extractVars == <<xin, xout>>
ratingVars == <<rating_str, rating_out>>
vars == <<searchVars, mainVars, extractVars, ratingVars>>

-----------------------------------------------------------------------------
(* Bounds of the model *)

\* entries per upstream page
MaxPageLen == 2
\* pages of a short upstream, which may send any mix of entries
MaxRichPages == 2
\* pages of the upstream in a whole run of main
MaxRunPages == 1

-----------------------------------------------------------------------------
(* Python values *)

NoneVal == "<None>"

\* truthiness of a str-or-None value (if cursor, if not cursor)
Truthy(v) == v # NoneVal /\ v # ""

RECURSIVE IndexOf(_, _, _)
IndexOf(s, tok, i) ==
    IF i > Len(s) THEN 0
    ELSE IF s[i] = tok THEN i
    ELSE IndexOf(s, tok, i + 1)

\* tok in s
Contains(s, tok) == IndexOf(s, tok, 1) # 0

\* str.split(sep): the segments between the separators
RECURSIVE Split(_, _)
Split(s, sep) ==
    LET i == IndexOf(s, sep, 1) IN
    IF i = 0 THEN <<s>>
    ELSE <<SubSeq(s, 1, i - 1)>> \o Split(SubSeq(s, i + 1, Len(s)), sep)

IsPrefix(s, t) == Len(s) <= Len(t) /\ SubSeq(t, 1, Len(s)) = s

-----------------------------------------------------------------------------
(* search_listings: constants and helpers *)

max_pages == 20

\* while page_count < max_pages
LoopCondOffByOne(n) == n <= max_pages
LoopCond(n) == n < max_pages

\* build_raw_params: the cursor rawParam, <<>> when none is appended
CursorParamStale(c) == IF Truthy(c) THEN <<"c1">> ELSE <<>>
CursorParam(c) == IF Truthy(c) THEN <<c>> ELSE <<>>

\* response.status_code != 200
HttpFailed(status) == status # 200

\* base64.b64decode(encoded_id).decode("utf-8"): an encoded id is
\* [present, b64ok, utf8ok, text]; decoding raises on invalid base64 or UTF-8
B64Utf8Decode(enc) ==
    IF ~enc.b64ok \/ ~enc.utf8ok
    THEN [raised |-> TRUE, text |-> <<>>]
    ELSE [raised |-> FALSE, text |-> enc.text]

\* lines 261-273: room_id of a result; <<>> stands for None and for ""
DecodeRoomIdFirstSegment(result) ==
    IF result.dsl # "dict" THEN <<>>
    ELSE IF ~result.id.present THEN <<>>
    ELSE LET d == B64Utf8Decode(result.id) IN
         IF d.raised THEN <<>>
         ELSE IF Contains(d.text, ":") THEN Split(d.text, ":")[1]
         ELSE <<>>
DecodeRoomId(result) ==
    IF result.dsl # "dict" THEN <<>>
    ELSE IF ~result.id.present THEN <<>>
    ELSE LET d == B64Utf8Decode(result.id) IN
         IF d.raised THEN <<>>
         ELSE IF Contains(d.text, ":") THEN Split(d.text, ":")[2]
         ELSE <<>>

\* line 279: any(l["room_id"] == str(room_id) for l in all_listings)
IsDuplicateNever(room_id, acc) == FALSE
IsDuplicate(room_id, acc) ==
    \E i \in 1..Len(acc) : acc[i].room_id = room_id

\* the character classes of the two patterns of lines 295 and 299
Digits == {"0", "1", "2", "3", "4", "5", "6", "7", "8", "9"}
RatingChars == Digits \cup {"."}
Spaces == {" ", "\t", "\n"}

\* the index after the longest run of characters of C that starts at i
RECURSIVE RunEnd(_, _, _)
RunEnd(s, i, C) ==
    IF i <= Len(s) /\ s[i] \in C THEN RunEnd(s, i + 1, C) ELSE i

NoMatch == [matched |-> FALSE, g1 |-> <<>>, g2 |-> <<>>]

\* line 295: re.match(r"([\d.]+)\s*\((\d+)\)", rating_str).  The match starts
\* at the first character and need not reach the end of the text.  The
\* classes of adjacent pattern items are disjoint, so the greedy runs are
\* the only way to match.
MatchRatingCount(s) ==
    LET a == RunEnd(s, 1, RatingChars)
        b == RunEnd(s, a, Spaces)
        d == RunEnd(s, b + 1, Digits)
    IN  IF /\ a > 1
           /\ b <= Len(s) /\ s[b] = "("
           /\ d > b + 1
           /\ d <= Len(s) /\ s[d] = ")"
        THEN [matched |-> TRUE, g1 |-> SubSeq(s, 1, a - 1),
              g2 |-> SubSeq(s, b + 1, d - 1)]
        ELSE NoMatch

\* line 299: re.match(r"^[\d.]+$", rating_str); $ also matches before a
\* newline that ends the text
MatchBareRating(s) ==
    LET a == RunEnd(s, 1, RatingChars)
    IN  /\ a > 1
        /\ \/ a = Len(s) + 1
           \/ a = Len(s) /\ s[a] = "\n"

\* lines 290-302: avg_rating and reviews_count out of avgRatingLocalized
DecomposeRating(s) ==
    IF s = <<>> THEN [avg_rating |-> <<>>, reviews_count |-> <<>>]
    ELSE LET match == MatchRatingCount(s) IN
         IF match.matched
         THEN [avg_rating |-> match.g1, reviews_count |-> match.g2]
         ELSE IF MatchBareRating(s)
              THEN [avg_rating |-> s, reviews_count |-> <<>>]
              ELSE [avg_rating |-> <<>>, reviews_count |-> <<>>]

\* lines 313-325: the summary of a result; src_page is history
Summary(result, room_id, page) ==
    [room_id |-> room_id,
     name |-> IF result.title # "" THEN result.title ELSE result.subtitle,
     room_type |-> <<>>,
     person_capacity |-> <<>>,
     bedrooms |-> <<>>,
     beds |-> <<>>,
     bathrooms |-> <<>>,
     price |-> result.price,
     avg_rating |-> DecomposeRating(result.rating).avg_rating,
     reviews_count |-> DecomposeRating(result.rating).reviews_count,
     is_guest_favorite_search |-> result.gf_badge,
     src_page |-> page]

\* lines 259-325: the for loop over search_results.  A demandStayListing
\* that is neither a dict nor falsy makes dsl.get raise.
RECURSIVE ExtractPage(_, _, _, _, _)
ExtractPage(results, i, acc, all, page) ==
    IF i > Len(results) THEN [raised |-> FALSE, page_listings |-> acc]
    ELSE LET result == results[i] IN
         IF result.dsl = "nondict" THEN [raised |-> TRUE, page_listings |-> acc]
         ELSE LET room_id == DecodeRoomId(result) IN
              IF room_id = <<>> THEN ExtractPage(results, i + 1, acc, all, page)
              ELSE IF IsDuplicate(room_id, all)
                   THEN ExtractPage(results, i + 1, acc, all, page)
              ELSE ExtractPage(results, i + 1,
                               Append(acc, Summary(result, room_id, page)),
                               all, page)

\* line 327: all_listings.extend(page_listings)
MergePageReplace(all, page_listings) == page_listings \o all
MergePage(all, page_listings) == all \o page_listings

\* line 331: if not page_listings: break
StopOnEmptyNever(page_listings) == FALSE
StopOnEmpty(page_listings) == page_listings = <<>>

\* lines 335-336: pagination_info.get("nextPageCursor"); a paginationInfo
\* that is present but not a dict (JSON null) makes .get raise
NextPageCursor(resp) ==
    CASE resp.pagination = "absent" -> [raised |-> FALSE, cursor |-> NoneVal]
      [] resp.pagination = "null" -> [raised |-> TRUE, cursor |-> NoneVal]
      [] OTHER -> [raised |-> FALSE, cursor |-> resp.next]

\* line 338: if not cursor: break
StopOnNoCursor(c) == ~Truthy(c)

\* lines 346-350: except Exception: return all_listings
ExceptReturnNothing(all) == <<>>
ExceptReturn(all) == all

-----------------------------------------------------------------------------
(* The upstream: what a page response may be *)

Enc(text) == [present |-> TRUE, b64ok |-> TRUE, utf8ok |-> TRUE, text |-> text]

\* avgRatingLocalized texts
R_WithCount == <<"4", ".", "9", "8", " ", "(", "4", "2", ")">>
R_Bare == <<"5", ".", "0">>
R_New == <<"N", "e", "w">>

\* a searchResults entry without avgRatingLocalized, price and badges; gt is
\* the upstream's listing id for it (<<>> when the entry names no listing),
\* kept as history
Entry(dsl, id, title) ==
    [dsl |-> dsl, id |-> id, title |-> title, subtitle |-> "s", gt |-> <<>>,
     rating |-> <<>>, price |-> NoneVal, gf_badge |-> FALSE]

\* an entry naming listing idtok; the one titled "t1" comes with a rating
\* and a review count, a price and the GUEST_FAVORITE badge, any other with
\* a bare rating
GoodEntry(idtok, title) ==
    [dsl |-> "dict", id |-> Enc(<<"D", ":", idtok>>), title |-> title,
     subtitle |-> "s", gt |-> <<idtok>>,
     rating |-> IF title = "t1" THEN R_WithCount ELSE R_Bare,
     price |-> IF title = "t1" THEN "p1" ELSE NoneVal,
     gf_badge |-> title = "t1"]

\* "DemandStayListing:b:x": the id is the segment after the first colon
TwoColonEntry ==
    [dsl |-> "dict", id |-> Enc(<<"D", ":", "b", ":", "x">>), title |-> "",
     subtitle |-> "s", gt |-> <<"b">>,
     rating |-> R_New, price |-> NoneVal, gf_badge |-> FALSE]

EmptySegEntry == Entry("dict", Enc(<<"D", ":">>), "t1")

\* entries whose id cannot be derived
BadEntries ==
    { Entry("absent", Enc(<<>>), "t1"),
      Entry("null", Enc(<<>>), "t1"),
      Entry("dict", [present |-> FALSE, b64ok |-> TRUE, utf8ok |-> TRUE, text |-> <<>>], "t1"),
      Entry("dict", [present |-> TRUE, b64ok |-> FALSE, utf8ok |-> TRUE, text |-> <<>>], "t1"),
      Entry("dict", [present |-> TRUE, b64ok |-> TRUE, utf8ok |-> FALSE, text |-> <<>>], "t1"),
      Entry("dict", Enc(<<"D", "a">>), "t1"),
      EmptySegEntry }

\* a demandStayListing that is a string: dsl.get raises
NonDictEntry == Entry("nondict", Enc(<<>>), "t1")

\* the id only page p carries
Fresh(p) == GoodEntry(ToString(p), "t1")

CoreEntries(p) ==
    { GoodEntry("a", "t1"), GoodEntry("a", "t2"), EmptySegEntry, Fresh(p) }

SeqsUpTo(S, n) == UNION { [1..k -> S] : k \in 0..n }

\* the results of a page among the first MaxRichPages: any mix of the core
\* entries, and every other kind of entry alone, before and after a good one
RichResults(p) ==
    LET others == BadEntries \cup
                  { NonDictEntry, TwoColonEntry }
    IN  SeqsUpTo(CoreEntries(p), MaxPageLen)
        \cup { <<x>> : x \in others }
        \cup { <<x, GoodEntry("a", "t1")>> : x \in others }
        \cup { <<GoodEntry("a", "t1"), x>> : x \in others }

\* the results of a page of a long upstream: at most one new listing
PlainResults(p) ==
    { <<>>, <<Fresh(p)>>, <<GoodEntry("a", "t2")>>, <<EmptySegEntry, Fresh(p)>>,
      <<GoodEntry("a", "t2"), Fresh(p)>> }

\* the upstream is either short (up_pages <= MaxRichPages) with pages of any
\* mix, or long (more pages than max_pages) with plain pages
ResultsChoices(p) ==
    IF up_pages <= MaxRichPages THEN RichResults(p) ELSE PlainResults(p)

\* paginationInfo of a page: absent, null, or a dict with its nextPageCursor
PageInfo(pagination, next) == [pagination |-> pagination, next |-> next]

PageInfoChoices(p) ==
    { PageInfo("absent", NoneVal), PageInfo("null", NoneVal),
      PageInfo("dict", NoneVal), PageInfo("dict", "") }
    \cup IF p >= up_pages THEN {} ELSE { PageInfo("dict", c) : c \in {"c1", "c2"} }

-----------------------------------------------------------------------------
(* The filters: main's configuration and build_raw_params *)

\* int(s) and str(n) on the numbers the configuration carries
IntOf(s) ==
    CASE s = "0" -> 0 [] s = "1" -> 1 [] s = "2" -> 2 [] s = "02" -> 2
      [] s = "3" -> 3
StrOf(n) ==
    CASE n = 0 -> "0" [] n = 1 -> "1" [] n = 2 -> "2" [] n = 3 -> "3"

EmptyDict == [k \in {} |-> ""]

\* d[key] = value when cond, d otherwise
SetIf(cond, key, value, d) == IF cond THEN (key :> value) @@ d ELSE d

\* the environment-sourced configuration, lines 28-36
Config(guests, room_type, min_bedrooms, max_bedrooms, guest_favorite, luxe, query) ==
    [GUESTS |-> guests, ROOM_TYPE |-> room_type, MIN_BEDROOMS |-> min_bedrooms,
     MAX_BEDROOMS |-> max_bedrooms, GUEST_FAVORITE |-> guest_favorite,
     LUXE |-> luxe, QUERY |-> query]

NoConfig == Config("", "", "", "", "", "", "")

\* lines 593-607: the filters main hands to search_listings
MainFilters(c) ==
    SetIf(c.QUERY # "", "query", c.QUERY,
    SetIf(c.LUXE = "true", "luxe", TRUE,
    SetIf(c.GUEST_FAVORITE = "true", "guest_favorite", TRUE,
    SetIf(c.MAX_BEDROOMS # "", "max_bedrooms", IntOf(c.MAX_BEDROOMS),
    SetIf(c.MIN_BEDROOMS # "", "min_bedrooms", IntOf(c.MIN_BEDROOMS),
    SetIf(c.ROOM_TYPE # "", "room_type", c.ROOM_TYPE,
    SetIf(c.GUESTS # "", "adults", IntOf(c.GUESTS),
          EmptyDict)))))))

\* the falsy value of the type filter field key has
FalsyOf(key) ==
    CASE key \in {"adults", "min_bedrooms", "max_bedrooms"} -> 0
      [] key \in {"room_type", "query"} -> ""
      [] OTHER -> FALSE

\* filters.get(key): the value is there and truthy
FilterTruthy(f, key) ==
    /\ key \in DOMAIN f
    /\ f[key] # FalsyOf(key)

Param(name, value) == [filterName |-> name, filterValues |-> <<value>>]

\* lines 120-140: the parameters every request carries
FixedParams ==
    << Param("cdnCacheSafe", "false"), Param("channel", "EXPLORE"),
       Param("checkin", "check_in"), Param("checkout", "check_out"),
       Param("datePickerType", "calendar"),
       Param("flexibleTripLengths", "one_week"), Param("itemsPerGrid", "50"),
       Param("refinementPaths", "/homes"), Param("screenSize", "large"),
       Param("searchMode", "regular_search"), Param("tabId", "home_tab"),
       Param("version", "1.8.3"),
       Param("neLat", "ne_lat"), Param("neLng", "ne_lng"),
       Param("swLat", "sw_lat"), Param("swLng", "sw_lng"),
       Param("searchByMap", "true") >>

\* lines 147-151
room_type_map ==
    [entire_home |-> "Entire home/apt", private_room |-> "Private room",
     shared_room |-> "Shared room"]

\* lines 118-175: build_raw_params(cursor)
BuildRawParams(f, c) ==
    FixedParams
    \o (IF FilterTruthy(f, "adults")
        THEN <<Param("adults", StrOf(f["adults"]))>> ELSE <<>>)
    \o (IF FilterTruthy(f, "room_type") /\ f["room_type"] \in DOMAIN room_type_map
        THEN <<Param("roomTypes", room_type_map[f["room_type"]])>> ELSE <<>>)
    \o (IF FilterTruthy(f, "min_bedrooms")
        THEN <<Param("minBedrooms", StrOf(f["min_bedrooms"]))>> ELSE <<>>)
    \o (IF FilterTruthy(f, "max_bedrooms")
        THEN <<Param("maxBedrooms", StrOf(f["max_bedrooms"]))>> ELSE <<>>)
    \o (IF FilterTruthy(f, "guest_favorite")
        THEN <<Param("guestFavorite", "true"),
               Param("selectedFilterOrder", "guest_favorite:true")>> ELSE <<>>)
    \o (IF FilterTruthy(f, "luxe")
        THEN <<Param("luxe", "true"),
               Param("selectedFilterOrder", "luxe:true")>> ELSE <<>>)
    \o (IF Truthy(c) THEN <<Param("cursor", c)>> ELSE <<>>)

\* the configurations of the runs: nothing set, one field set, all set
ConfigChoices ==
    { NoConfig,
      Config("2", "", "", "", "", "", ""),
      Config("02", "", "", "", "", "", ""),
      Config("", "entire_home", "", "", "", "", ""),
      Config("", "private_room", "", "", "", "", ""),
      Config("", "shared_room", "", "", "", "", ""),
      Config("", "", "1", "", "", "", ""),
      Config("", "", "", "3", "", "", ""),
      Config("", "", "", "", "true", "", ""),
      Config("", "", "", "", "false", "false", ""),
      Config("", "", "", "", "", "true", ""),
      Config("", "", "", "", "", "", "Downtown Dubai"),
      Config("2", "entire_home", "1", "3", "true", "true", "Downtown Dubai") }

-----------------------------------------------------------------------------
(* search_listings: the loop *)

SearchInit ==
    /\ all_listings = <<>>
    /\ cursor = NoneVal
    /\ page_count = 0
    /\ request = <<>>
    /\ raw_params = <<>>
    /\ n_requests = 0
    /\ resp_next = NoneVal
    /\ page_results = <<>>
    /\ outcome = "none"
    /\ before_page = <<>>
    /\ page_new = <<>>
    /\ first_seen = {}
    /\ cross_dup = FALSE
    /\ ret = <<>>
    /\ propagated = FALSE

\* lines 228-239: the while test, page_count += 1, the payload and the post
SendRequest ==
    /\ pc = "loop"
    /\ LoopCond(page_count)
    /\ page_count' = page_count + 1
    /\ request' = CursorParam(cursor)
    /\ raw_params' = BuildRawParams(filters, cursor)
    /\ n_requests' = n_requests + 1
    /\ before_page' = all_listings
    /\ page_new' = <<>>
    /\ pc' = "await"
    /\ UNCHANGED <<all_listings, cursor, resp_next, page_results, outcome, first_seen, cross_dup, ret,
                   propagated, up_pages, filters, mainVars, extractVars, ratingVars>>

\* line 228 false: fall out of the loop, lines 343-344
CapExit ==
    /\ pc = "loop"
    /\ ~LoopCond(page_count)
    /\ pc' = "returned"
    /\ ret' = all_listings
    /\ outcome' = "cap"
    /\ UNCHANGED <<all_listings, cursor, page_count, request, n_requests,
                   resp_next, page_results, before_page, page_new, first_seen, cross_dup, propagated,
                   up_pages, raw_params, filters, mainVars, extractVars, ratingVars>>

\* break (lines 243, 250, 332, 339), then lines 343-344
Break(why) ==
    /\ pc' = "returned"
    /\ ret' = all_listings'
    /\ outcome' = why

\* an exception inside the try: lines 346-350
Except(why) ==
    /\ pc' = "returned"
    /\ ret' = ExceptReturn(all_listings')
    /\ outcome' = why

\* curl_requests.post raises (timeout, connection reset)
RecvTransportError ==
    /\ pc = "await"
    /\ UNCHANGED all_listings
    /\ Except("transport")
    /\ UNCHANGED <<cursor, page_count, request, n_requests, resp_next, page_results,
                   before_page, page_new, first_seen, cross_dup, propagated, up_pages, raw_params, filters,
                   mainVars, extractVars, ratingVars>>

\* lines 241-243
RecvHttpError ==
    /\ pc = "await"
    /\ \E status \in {403, 500} :
           /\ HttpFailed(status)
           /\ UNCHANGED all_listings
           /\ Break("http")
    /\ UNCHANGED <<cursor, page_count, request, n_requests, resp_next, page_results,
                   before_page, page_new, first_seen, cross_dup, propagated, up_pages, raw_params, filters,
                   mainVars, extractVars, ratingVars>>

\* line 245: response.json() raises on a body that is not JSON
RecvBadJson ==
    /\ pc = "await"
    /\ ~HttpFailed(200)
    /\ UNCHANGED all_listings
    /\ Except("badjson")
    /\ UNCHANGED <<cursor, page_count, request, n_requests, resp_next, page_results,
                   before_page, page_new, first_seen, cross_dup, propagated, up_pages, raw_params, filters,
                   mainVars, extractVars, ratingVars>>

\* lines 248-250
RecvGraphqlErrors ==
    /\ pc = "await"
    /\ ~HttpFailed(200)
    /\ UNCHANGED all_listings
    /\ Break("graphql")
    /\ UNCHANGED <<cursor, page_count, request, n_requests, resp_next, page_results,
                   before_page, page_new, first_seen, cross_dup, propagated, up_pages, raw_params, filters,
                   mainVars, extractVars, ratingVars>>

\* line 255: data["data"] is null, so .get raises
RecvNullData ==
    /\ pc = "await"
    /\ ~HttpFailed(200)
    /\ UNCHANGED all_listings
    /\ Except("nulldata")
    /\ UNCHANGED <<cursor, page_count, request, n_requests, resp_next, page_results,
                   before_page, page_new, first_seen, cross_dup, propagated, up_pages, raw_params, filters,
                   mainVars, extractVars, ratingVars>>

\* the derivable ids a page carries
IdsOn(results) ==
    { DecodeRoomId(results[i]) : i \in 1..Len(results) } \ {<<>>}

SeenIds == { f[1] : f \in first_seen }

\* lines 253-341: a page with status 200 and no "errors"
RecvPage ==
    /\ pc = "await"
    /\ ~HttpFailed(200)
    /\ \E results \in ResultsChoices(page_count),
          info \in PageInfoChoices(page_count) :
        LET resp == [results |-> results, pagination |-> info.pagination,
                     next |-> info.next]
            ex == ExtractPage(results, 1, <<>>, all_listings, page_count)
            nc == NextPageCursor(resp)
        IN  /\ page_new' = ex.page_listings
            /\ page_results' = results
            /\ resp_next' = IF info.pagination = "dict" THEN info.next ELSE NoneVal
            /\ IF ex.raised
               THEN /\ UNCHANGED <<all_listings, cursor, first_seen, cross_dup>>
                    /\ Except("entry")
               ELSE /\ all_listings' = MergePage(all_listings, ex.page_listings)
                    /\ first_seen' = first_seen \cup
                           { <<r, page_count>> : r \in IdsOn(results) \ SeenIds }
                    /\ cross_dup' = (cross_dup \/ IdsOn(results) \cap SeenIds # {})
                    /\ IF StopOnEmpty(ex.page_listings)
                       THEN /\ UNCHANGED cursor
                            /\ Break("empty")
                       ELSE IF nc.raised
                       THEN /\ UNCHANGED cursor
                            /\ Except("pagination")
                       ELSE /\ cursor' = nc.cursor
                            /\ IF StopOnNoCursor(nc.cursor)
                               THEN Break("nocursor")
                               ELSE /\ pc' = "loop"
                                    /\ outcome' = "ok"
                                    /\ UNCHANGED ret
    /\ UNCHANGED <<page_count, request, n_requests, before_page, propagated,
                   up_pages, raw_params, filters, mainVars, extractVars, ratingVars>>

-----------------------------------------------------------------------------
(* Text: a sequence of one-character strings *)

\* "Superhost"
T_Superhost == <<"S", "u", "p", "e", "r", "h", "o", "s", "t">>

\* "Guest Favorite"
T_GuestFavorite == <<"G", "u", "e", "s", "t", " ", "F", "a", "v", "o", "r", "i", "t", "e">>

\* " | "
T_Sep == <<" ", "|", " ">>

\* "None"
T_None == <<"N", "o", "n", "e">>

\* "superhost"
K_superhost == <<"s", "u", "p", "e", "r", "h", "o", "s", "t">>

\* "top"
K_top == <<"t", "o", "p">>

\* "favorite"
K_favorite == <<"f", "a", "v", "o", "r", "i", "t", "e">>

\* "loved"
K_loved == <<"l", "o", "v", "e", "d">>

\* "top 1%"
P_top1 == <<"t", "o", "p", " ", "1", "%">>

\* "top 5%"
P_top5 == <<"t", "o", "p", " ", "5", "%">>

\* "top 10%"
P_top10 == <<"t", "o", "p", " ", "1", "0", "%">>

\* "Maria is a Superhost"
H_Maria == <<"M", "a", "r", "i", "a", " ", "i", "s", " ", "a", " ", "S", "u", "p", "e", "r", "h", "o", "s", "t">>

\* "SUPERHOST"
H_SUPERHOST == <<"S", "U", "P", "E", "R", "H", "O", "S", "T">>

\* "Top 5% of homes"
H_Top5Homes == <<"T", "o", "p", " ", "5", "%", " ", "o", "f", " ", "h", "o", "m", "e", "s">>

\* "Top"
H_Top == <<"T", "o", "p">>

\* "in the top 10%"
H_Top10Sub == <<"i", "n", " ", "t", "h", "e", " ", "t", "o", "p", " ", "1", "0", "%">>

\* "Loved"
H_Loved == <<"L", "o", "v", "e", "d">>

\* "Pool"
H_Pool == <<"P", "o", "o", "l">>


Uppers ==
    <<"A", "B", "C", "D", "E", "F", "G", "H", "I", "J", "K", "L", "M",
      "N", "O", "P", "Q", "R", "S", "T", "U", "V", "W", "X", "Y", "Z">>

Lowers ==
    <<"a", "b", "c", "d", "e", "f", "g", "h", "i", "j", "k", "l", "m",
      "n", "o", "p", "q", "r", "s", "t", "u", "v", "w", "x", "y", "z">>

LowerChar(c) ==
    LET i == IndexOf(Uppers, c, 1) IN IF i = 0 THEN c ELSE Lowers[i]

\* str.lower()
Lower(s) == [i \in 1..Len(s) |-> LowerChar(s[i])]

\* a in b, for two texts
IsSubstr(a, b) ==
    \E i \in 0..(Len(b) - Len(a)) : SubSeq(b, i + 1, i + Len(a)) = a

\* sep.join(parts)
RECURSIVE Join(_, _)
Join(sep, parts) ==
    IF parts = <<>> THEN <<>>
    ELSE IF Len(parts) = 1 THEN parts[1]
    ELSE parts[1] \o sep \o Join(sep, Tail(parts))

-----------------------------------------------------------------------------
(* Python values of the detail blob: type, str() and truth value *)

PyVal(ty, s, truthy) == [ty |-> ty, s |-> s, truthy |-> truthy]

\* a key the dict does not hold
PyAbsent == PyVal("absent", T_None, FALSE)
PyNone == PyVal("none", T_None, FALSE)
PyStr(s) == PyVal("str", s, s # <<>>)
\* an int in 0..9
PyInt(n) == PyVal("int", <<ToString(n)>>, n # 0)
PyFloat(s) == PyVal("float", s, TRUE)
PyBool(b) ==
    PyVal("bool", IF b THEN <<"T", "r", "u", "e">> ELSE <<"F", "a", "l", "s", "e">>, b)

\* d.get(key) is None
IsNone(v) == v.ty \in {"absent", "none"}

\* d.get(key, ""): the default replaces a missing key only
GetOrEmpty(v) == IF v.ty = "absent" THEN PyStr(<<>>) ELSE v

-----------------------------------------------------------------------------
(* extract_ratings_and_badges *)

\* lines 383-398
EmptyRecord ==
    [rating_overall |-> <<>>, rating_accuracy |-> <<>>, rating_cleanliness |-> <<>>,
     rating_checkin |-> <<>>, rating_communication |-> <<>>,
     rating_location |-> <<>>, rating_value |-> <<>>, reviews_count |-> <<>>,
     host_id |-> <<>>, host_name |-> <<>>, is_superhost |-> FALSE,
     is_guest_favorite |-> FALSE, top_percent |-> <<>>, badges |-> <<>>]

RatingKeys ==
    {"accuracy", "cleanliness", "checking", "communication", "location", "value",
     "guest_satisfaction", "review_count"}

HostKeys == {"id", "name"}

\* lines 407-437, 442-448: str(x) if x is not None, else the field stays ""
StrUnlessNone(v) == IF IsNone(v) THEN <<>> ELSE v.s

\* lines 404-405, 440-441: if data and isinstance(data, dict)
UsableDict(d) == d.truthy /\ d.ty = "dict"

\* lines 452-459: bool(flag) if flag is not None, else False
FlagOf(v) == IF IsNone(v) THEN FALSE ELSE v.truthy

\* line 481: any(keyword in title.lower() for keyword in [...])
HasKeyword(title) ==
    \E k \in {K_superhost, K_top, K_favorite, K_loved} : IsSubstr(k, Lower(title))

\* lines 472-478
TopPercentOf(combined, top) ==
    IF IsSubstr(P_top1, combined) THEN <<"1">>
    ELSE IF IsSubstr(P_top5, combined) THEN <<"5">>
    ELSE IF IsSubstr(P_top10, combined) THEN <<"1", "0">>
    ELSE top

\* lines 466-482: the loop over highlights.  title.lower() raises when the
\* title is truthy and not a str.
RECURSIVE ScanHighlights(_, _, _, _)
ScanHighlights(items, i, top, badges_list) ==
    IF i > Len(items)
    THEN [raised |-> FALSE, top_percent |-> top, badges_list |-> badges_list]
    ELSE LET highlight == items[i] IN
         IF highlight.ty # "dict" THEN ScanHighlights(items, i + 1, top, badges_list)
         ELSE LET title == GetOrEmpty(highlight.title)
                  subtitle == GetOrEmpty(highlight.subtitle)
                  combined == Lower(title.s \o <<" ">> \o subtitle.s)
                  top2 == TopPercentOf(combined, top)
              IN  IF ~title.truthy THEN ScanHighlights(items, i + 1, top2, badges_list)
                  ELSE IF title.ty # "str"
                  THEN [raised |-> TRUE, top_percent |-> top2, badges_list |-> badges_list]
                  ELSE IF HasKeyword(title.s)
                  THEN ScanHighlights(items, i + 1, top2, Append(badges_list, title.s))
                  ELSE ScanHighlights(items, i + 1, top2, badges_list)

\* line 491: f"Top {top_percent}%"
TopLabel(top) == <<"T", "o", "p", " ">> \o top \o <<"%">>

\* lines 485-491
FixedBadges(is_superhost, is_guest_favorite, top) ==
    (IF is_superhost THEN <<T_Superhost>> ELSE <<>>)
    \o (IF is_guest_favorite THEN <<T_GuestFavorite>> ELSE <<>>)
    \o (IF top # <<>> THEN <<TopLabel(top)>> ELSE <<>>)

\* line 496: existing.lower() in badge.lower() or badge.lower() in existing.lower()
NearDuplicateCaseSensitive(existing, badge) ==
    IsSubstr(existing, badge) \/ IsSubstr(badge, existing)
NearDuplicate(existing, badge) ==
    \/ IsSubstr(Lower(existing), Lower(badge))
    \/ IsSubstr(Lower(badge), Lower(existing))

\* lines 494-497
RECURSIVE AddBadges(_, _, _)
AddBadges(badges_list, i, final_badges) ==
    IF i > Len(badges_list) THEN final_badges
    ELSE LET badge == badges_list[i] IN
         IF \E j \in 1..Len(final_badges) : NearDuplicate(final_badges[j], badge)
         THEN AddBadges(badges_list, i + 1, final_badges)
         ELSE AddBadges(badges_list, i + 1, Append(final_badges, badge))

\* a record that was not produced because the call raised
Raised == [raised |-> TRUE, result |-> EmptyRecord, final_badges |-> <<>>]

\* lines 373-501.  details.get raises when details is truthy and not a dict.
ExtractRatingsAndBadges(details) ==
    IF ~details.truthy
    THEN [raised |-> FALSE, result |-> EmptyRecord, final_badges |-> <<>>]
    ELSE IF details.ty # "dict" THEN Raised
    ELSE LET r == details.rating
             h == details.host
             okr == UsableDict(r)
             okh == UsableDict(h)
             hl == IF details.highlights.ty = "list" THEN details.highlights.items
                   ELSE <<>>
             scan == ScanHighlights(hl, 1, <<>>, <<>>)
             sh == FlagOf(details.is_super_host)
             gf == FlagOf(details.is_guest_favorite)
             final == AddBadges(scan.badges_list, 1,
                                FixedBadges(sh, gf, scan.top_percent))
         IN  IF scan.raised THEN Raised
             ELSE [raised |-> FALSE,
                   final_badges |-> final,
                   result |->
                     [rating_overall |->
                          IF okr THEN StrUnlessNone(r.items["guest_satisfaction"]) ELSE <<>>,
                      rating_accuracy |->
                          IF okr THEN StrUnlessNone(r.items["accuracy"]) ELSE <<>>,
                      rating_cleanliness |->
                          IF okr THEN StrUnlessNone(r.items["cleanliness"]) ELSE <<>>,
                      rating_checkin |->
                          IF okr THEN StrUnlessNone(r.items["checking"]) ELSE <<>>,
                      rating_communication |->
                          IF okr THEN StrUnlessNone(r.items["communication"]) ELSE <<>>,
                      rating_location |->
                          IF okr THEN StrUnlessNone(r.items["location"]) ELSE <<>>,
                      rating_value |->
                          IF okr THEN StrUnlessNone(r.items["value"]) ELSE <<>>,
                      reviews_count |->
                          IF okr THEN StrUnlessNone(r.items["review_count"]) ELSE <<>>,
                      host_id |-> IF okh THEN StrUnlessNone(h.items["id"]) ELSE <<>>,
                      host_name |-> IF okh THEN StrUnlessNone(h.items["name"]) ELSE <<>>,
                      is_superhost |-> sh,
                      is_guest_favorite |-> gf,
                      top_percent |-> scan.top_percent,
                      badges |-> Join(T_Sep, final)]]

-----------------------------------------------------------------------------
(* Detail blobs: what pyairbnb.get_details may hand back *)

\* highlights per blob
MaxHighlights == 2

Container(ty, truthy, items) == [ty |-> ty, truthy |-> truthy, items |-> items]

NoRatingItems == [k \in RatingKeys |-> PyAbsent]
NoHostItems == [k \in HostKeys |-> PyAbsent]

RatingFull ==
    Container("dict", TRUE,
        [k \in RatingKeys |->
            CASE k = "review_count" -> PyInt(0)
              [] k = "cleanliness" -> PyInt(5)
              [] k = "guest_satisfaction" -> PyFloat(<<"4", ".", "9">>)
              [] OTHER -> PyStr(<<"4", ".", "8">>)])

RatingPartial ==
    Container("dict", TRUE,
        [k \in RatingKeys |->
            CASE k = "accuracy" -> PyFloat(<<"4", ".", "7">>)
              [] k = "value" -> PyNone
              [] OTHER -> PyAbsent])

RatingChoices ==
    { Container("absent", FALSE, NoRatingItems),
      Container("float", TRUE, NoRatingItems),
      RatingFull, RatingPartial }

HostChoices ==
    { Container("str", TRUE, NoHostItems),
      Container("dict", FALSE, NoHostItems),
      Container("dict", TRUE,
          [k \in HostKeys |-> IF k = "id" THEN PyInt(7) ELSE PyNone]) }

Highlight(ty, title, subtitle) == [ty |-> ty, title |-> title, subtitle |-> subtitle]

HighlightItems ==
    { Highlight("str", PyAbsent, PyAbsent),
      Highlight("dict", PyStr(H_Maria), PyStr(H_Top5Homes)),
      Highlight("dict", PyStr(H_SUPERHOST), PyStr(<<>>)),
      Highlight("dict", PyStr(H_Top5Homes), PyAbsent),
      Highlight("dict", PyStr(H_Top), PyStr(H_Top10Sub)),
      Highlight("dict", PyAbsent, PyStr(H_Top10Sub)),
      Highlight("dict", PyStr(H_Loved), PyNone),
      Highlight("dict", PyStr(H_Pool), PyStr(<<>>)),
      Highlight("dict", PyNone, PyStr(<<>>)),
      Highlight("dict", PyInt(5), PyStr(<<>>)) }

HighlightsChoices ==
    { Container("absent", FALSE, <<>>), Container("dict", TRUE, <<>>) }
    \cup { Container("list", items # <<>>, items) :
             items \in SeqsUpTo(HighlightItems, MaxHighlights) }

Details(ty, truthy, rating, host, sh, gf, highlights) ==
    [ty |-> ty, truthy |-> truthy, rating |-> rating, host |-> host,
     is_super_host |-> sh, is_guest_favorite |-> gf, highlights |-> highlights]

NoDetailField == Container("absent", FALSE, <<>>)

\* None, as get_listing_details returns after a failure
DetailsNone ==
    Details("none", FALSE, NoDetailField, NoDetailField, PyAbsent, PyAbsent,
            NoDetailField)

\* an empty dict
DetailsEmpty ==
    Details("dict", FALSE, NoDetailField, NoDetailField, PyAbsent, PyAbsent,
            NoDetailField)

\* a non-empty list or str
DetailsNonDict ==
    Details("list", TRUE, NoDetailField, NoDetailField, PyAbsent, PyAbsent,
            NoDetailField)

\* the blobs under test: every rating and host shape beside plain flags, and
\* every mix of flags and highlights beside a full rating
DetailsInputs ==
    { DetailsNone, DetailsEmpty, DetailsNonDict }
    \cup { Details("dict", TRUE, r, h, PyBool(TRUE), PyNone, Container("absent", FALSE, <<>>)) :
             r \in RatingChoices, h \in HostChoices }
    \cup { Details("dict", TRUE, RatingFull, Container("str", TRUE, NoHostItems), sh, gf, hl) :
             sh \in {PyAbsent, PyBool(TRUE), PyBool(FALSE)},
             gf \in {PyNone, PyBool(TRUE)},
             hl \in HighlightsChoices }

XOff == [state |-> "off", raised |-> FALSE, result |-> EmptyRecord, final_badges |-> <<>>]

\* one call of extract_ratings_and_badges(xin)
ExtractCall ==
    /\ xout.state = "pending"
    /\ xout' = [state |-> "done"] @@ ExtractRatingsAndBadges(xin)
    /\ UNCHANGED <<xin, searchVars, mainVars, ratingVars>>

-----------------------------------------------------------------------------
(* The rating text of a search result, decomposed on its own *)

\* length of the rating texts built from RatingAlphabet
MaxRatingLen == 3

RatingAlphabet == {"4", ".", " ", "(", ")", "x", "\n"}

\* the texts under test: the examples, and every short text
RatingInputs ==
    { R_WithCount, R_Bare, R_New, R_WithCount \o <<" ", "x">>,
      <<"4", ".", "9", "8", "(", "4", "2", ")">>,
      <<"4", ".", "9", "8", " ", "(", "4", "2">>,
      <<"4", ".", "9", "8", " ", "(", ")">> }
    \cup SeqsUpTo(RatingAlphabet, MaxRatingLen)

\* no decomposition yet
ROff == [state |-> "off", avg_rating |-> <<>>, reviews_count |-> <<>>]

\* lines 290-302 applied to rating_str
DecomposeCall ==
    /\ rating_out.state = "pending"
    /\ rating_out' = [state |-> "done"] @@ DecomposeRating(rating_str)
    /\ UNCHANGED <<rating_str, searchVars, mainVars, extractVars>>

-----------------------------------------------------------------------------
(* main: search, enrichment, export *)

\* dict.get(key, default)
GetOr(d, key, default) == IF key \in DOMAIN d THEN d[key] ELSE default

\* line 660: listing.update(ratings)
UpdateListingKeepOld(listing, ratings) == listing @@ ratings
UpdateListing(listing, ratings) == ratings @@ listing

\* lines 668, 672: error_count += 1
ErrorCountStuck(n) == n
ErrorCountAfter(n) == n + 1

\* line 661: success_count += 1
SuccessCountAfter(n) == n + 1

\* lines 543-567: the row export_to_csv writes for a listing
Row(listing) ==
    [room_id |-> GetOr(listing, "room_id", <<>>),
     title |-> GetOr(listing, "name", ""),
     room_type |-> GetOr(listing, "room_type", <<>>),
     bedrooms |-> GetOr(listing, "bedrooms", <<>>),
     beds |-> GetOr(listing, "beds", <<>>),
     bathrooms |-> GetOr(listing, "bathrooms", <<>>),
     guests_capacity |-> GetOr(listing, "person_capacity", <<>>),
     price |-> GetOr(listing, "price", <<>>),
     rating_overall |-> GetOr(listing, "rating_overall", <<>>),
     rating_accuracy |-> GetOr(listing, "rating_accuracy", <<>>),
     rating_cleanliness |-> GetOr(listing, "rating_cleanliness", <<>>),
     rating_checkin |-> GetOr(listing, "rating_checkin", <<>>),
     rating_communication |-> GetOr(listing, "rating_communication", <<>>),
     rating_location |-> GetOr(listing, "rating_location", <<>>),
     rating_value |-> GetOr(listing, "rating_value", <<>>),
     reviews_count |-> GetOr(listing, "reviews_count", <<>>),
     host_id |-> GetOr(listing, "host_id", <<>>),
     host_name |-> GetOr(listing, "host_name", <<>>),
     is_superhost |-> GetOr(listing, "is_superhost", FALSE),
     is_guest_favorite |-> GetOr(listing, "is_guest_favorite", FALSE),
     top_percent |-> GetOr(listing, "top_percent", <<>>),
     badges |-> GetOr(listing, "badges", <<>>)]

\* a blob with ratings, flags and a highlight
DetailsGood ==
    Details("dict", TRUE, RatingFull, Container("dict", TRUE,
                [k \in HostKeys |-> IF k = "id" THEN PyInt(7) ELSE PyNone]),
            PyBool(TRUE), PyBool(TRUE),
            Container("list", TRUE,
                <<Highlight("dict", PyStr(H_Maria), PyStr(H_Top5Homes))>>))

\* a blob whose highlight title is a number
DetailsBadTitle ==
    Details("dict", TRUE, RatingFull, NoDetailField, PyAbsent, PyAbsent,
            Container("list", TRUE, <<Highlight("dict", PyInt(5), PyStr(<<>>))>>))

\* a blob that holds a flag and neither ratings nor host
DetailsSparse ==
    Details("dict", TRUE, NoDetailField, NoDetailField, PyBool(TRUE), PyAbsent,
            NoDetailField)

\* what pyairbnb.get_details returns during a run, when it returns
RunDetails == { DetailsNone, DetailsEmpty, DetailsNonDict, DetailsBadTitle, DetailsGood }

\* lines 639-641: if not listings: return
NoListingsNever(ls) == FALSE
NoListings(ls) == ls = <<>>

\* lines 637-649: search_listings has returned; its locals are gone, the
\* history of how it ended is kept
MainAfterSearch ==
    /\ mpc = "search"
    /\ pc = "returned"
    /\ listings' = ret
    /\ found' = ret
    /\ mpc' = IF NoListings(ret) THEN "empty" ELSE "enrich"
    /\ idx' = 1
    /\ success_count' = 0
    /\ error_count' = 0
    /\ pc' = "idle"
    /\ all_listings' = <<>>
    /\ cursor' = NoneVal
    /\ page_count' = 0
    /\ request' = <<>>
    /\ resp_next' = NoneVal
    /\ page_results' = <<>>
    /\ before_page' = <<>>
    /\ page_new' = <<>>
    /\ first_seen' = {}
    /\ cross_dup' = FALSE
    /\ ret' = <<>>
    /\ UNCHANGED <<outcome, n_requests, propagated, up_pages, raw_params, filters, fetched, detail_ok,
                   exported, export_calls, extractVars, ratingVars>>

\* lines 651-675, pyairbnb.get_details raising: get_listing_details returns
\* None (lines 369-370)
EnrichFetchFails ==
    /\ mpc = "enrich"
    /\ idx <= Len(listings)
    /\ fetched' = Append(fetched, listings[idx].room_id)
    /\ detail_ok' = Append(detail_ok, FALSE)
    /\ error_count' = ErrorCountAfter(error_count)
    /\ idx' = idx + 1
    /\ UNCHANGED <<mpc, listings, found, success_count, exported, export_calls,
                   searchVars, extractVars, ratingVars>>

\* lines 651-675: one turn of the loop, pyairbnb.get_details returning details
EnrichStep(details) ==
    /\ mpc = "enrich"
    /\ idx <= Len(listings)
    /\ fetched' = Append(fetched, listings[idx].room_id)
    /\ IF details.truthy
       THEN LET ex == ExtractRatingsAndBadges(details) IN
            IF ex.raised
            THEN /\ error_count' = ErrorCountAfter(error_count)
                 /\ detail_ok' = Append(detail_ok, FALSE)
                 /\ UNCHANGED <<listings, success_count>>
            ELSE /\ listings' = [listings EXCEPT
                                   ![idx] = UpdateListing(listings[idx], ex.result)]
                 /\ success_count' = SuccessCountAfter(success_count)
                 /\ detail_ok' = Append(detail_ok, TRUE)
                 /\ UNCHANGED error_count
       ELSE /\ error_count' = ErrorCountAfter(error_count)
            /\ detail_ok' = Append(detail_ok, FALSE)
            /\ UNCHANGED <<listings, success_count>>
    /\ idx' = idx + 1
    /\ UNCHANGED <<mpc, found, exported, export_calls, searchVars, extractVars, ratingVars>>

\* lines 651-675, pyairbnb.get_details returning a value
EnrichWithDetails == \E details \in RunDetails : EnrichStep(details)

\* lines 651-675, pyairbnb.get_details returning a blob without ratings
EnrichWithSparseDetails == EnrichStep(DetailsSparse)

\* lines 679-685: the loop is over, export_to_csv(listings, filename)
ExportCsv ==
    /\ mpc = "enrich"
    /\ idx > Len(listings)
    /\ exported' = [i \in 1..Len(listings) |-> Row(listings[i])]
    /\ export_calls' = export_calls + 1
    /\ mpc' = "done"
    /\ UNCHANGED <<listings, found, idx, success_count, error_count, fetched,
                   detail_ok, searchVars, extractVars, ratingVars>>

-----------------------------------------------------------------------------
(* Spec: search_listings called once *)

MainOff ==
    /\ mpc = "off"
    /\ listings = <<>>
    /\ found = <<>>
    /\ idx = 0
    /\ success_count = 0
    /\ error_count = 0
    /\ fetched = <<>>
    /\ detail_ok = <<>>
    /\ exported = <<>>
    /\ export_calls = 0

ExtractOff ==
    /\ xin = DetailsNone
    /\ xout = XOff

RatingOff ==
    /\ rating_str = <<>>
    /\ rating_out = ROff

Init ==
    /\ pc = "loop"
    /\ SearchInit
    /\ up_pages \in {MaxRichPages, max_pages + 1}
    /\ filters = MainFilters(NoConfig)
    /\ MainOff
    /\ ExtractOff
    /\ RatingOff

Next ==
    \/ SendRequest
    \/ CapExit
    \/ RecvTransportError
    \/ RecvHttpError
    \/ RecvBadJson
    \/ RecvGraphqlErrors
    \/ RecvNullData
    \/ RecvPage

Spec == Init /\ [][Next]_vars

\* extract_ratings_and_badges applied to each blob of DetailsInputs
InitExtract ==
    /\ pc = "returned"
    /\ SearchInit
    /\ up_pages = MaxRichPages
    /\ filters = MainFilters(NoConfig)
    /\ MainOff
    /\ xin \in DetailsInputs
    /\ xout = [XOff EXCEPT !.state = "pending"]
    /\ RatingOff

NextExtract == ExtractCall

SpecExtract == InitExtract /\ [][NextExtract]_vars

\* main run once against an upstream of at most MaxRunPages pages, which
\* never reaches the page cap
InitRun ==
    /\ pc = "loop"
    /\ SearchInit
    /\ up_pages \in 1..MaxRunPages
    /\ filters = MainFilters(NoConfig)
    /\ mpc = "search"
    /\ listings = <<>>
    /\ found = <<>>
    /\ idx = 0
    /\ success_count = 0
    /\ error_count = 0
    /\ fetched = <<>>
    /\ detail_ok = <<>>
    /\ exported = <<>>
    /\ export_calls = 0
    /\ ExtractOff
    /\ RatingOff

NextRun ==
    \/ SendRequest
    \/ RecvTransportError
    \/ RecvHttpError
    \/ RecvBadJson
    \/ RecvGraphqlErrors
    \/ RecvNullData
    \/ RecvPage
    \/ MainAfterSearch
    \/ EnrichFetchFails
    \/ EnrichWithDetails
    \/ ExportCsv

SpecRun == InitRun /\ [][NextRun]_vars

\* main run once against an upstream of one page, the detail service also
\* returning blobs without ratings
InitMerge ==
    /\ InitRun
    /\ up_pages = 1

NextMerge ==
    \/ SendRequest
    \/ RecvTransportError
    \/ RecvHttpError
    \/ RecvBadJson
    \/ RecvGraphqlErrors
    \/ RecvNullData
    \/ RecvPage
    \/ MainAfterSearch
    \/ EnrichFetchFails
    \/ EnrichWithDetails
    \/ EnrichWithSparseDetails
    \/ ExportCsv

SpecMerge == InitMerge /\ [][NextMerge]_vars

\* lines 290-302 applied to each text of RatingInputs
InitRating ==
    /\ pc = "returned"
    /\ SearchInit
    /\ up_pages = MaxRichPages
    /\ filters = MainFilters(NoConfig)
    /\ MainOff
    /\ ExtractOff
    /\ rating_str \in RatingInputs
    /\ rating_out = [ROff EXCEPT !.state = "pending"]

NextRating == DecomposeCall

SpecRating == InitRating /\ [][NextRating]_vars

\* search_listings called with the filters of each configuration, against
\* an upstream of plain pages that ends before the page cap
InitFilters ==
    /\ pc = "loop"
    /\ SearchInit
    /\ up_pages = MaxRichPages + 1
    /\ \E c \in ConfigChoices : filters = MainFilters(c)
    /\ MainOff
    /\ ExtractOff
    /\ RatingOff

NextFilters ==
    \/ SendRequest
    \/ RecvTransportError
    \/ RecvHttpError
    \/ RecvBadJson
    \/ RecvGraphqlErrors
    \/ RecvNullData
    \/ RecvPage

SpecFilters == InitFilters /\ [][NextFilters]_vars

\* every step of the loop runs to its end: each request returns or raises
\* within its timeout (line 238)
SpecFair == Spec /\ WF_vars(Next)

-----------------------------------------------------------------------------
(* Properties of search_listings *)

RoomIds(ls) == { ls[i].room_id : i \in 1..Len(ls) }

\* outcomes of a failed page request
Failures ==
    {"transport", "http", "badjson", "graphql", "nulldata", "entry", "pagination"}

\* the latest page response was handled up to the merge of its listings
Merged == outcome \in {"ok", "empty", "nocursor", "pagination"}

\* C1: the list accumulated and returned by search_listings holds each
\* room_id at most once, whatever the pages were (one page listing the same
\* encoded id twice included).
C1_UniqueRoomIds ==
    \A i, j \in 1..Len(all_listings) :
        i # j => all_listings[i].room_id # all_listings[j].room_id

\* C2: a room_id carried by two different pages is kept as built from the
\* earlier page (every summary comes from the first page that carried its
\* id), and the accumulated list only ever grows by appending at its end.
C2_FirstOccurrenceWins ==
    /\ [](\A i \in 1..Len(all_listings) :
            <<all_listings[i].room_id, all_listings[i].src_page>> \in first_seen)
    /\ [][IsPrefix(all_listings, all_listings')]_vars

C2_Witness ==
    /\ cross_dup
    /\ outcome = "ok"
    /\ \E i \in 1..Len(all_listings) : all_listings[i].src_page < page_count
    /\ \E i \in 1..Len(all_listings) : all_listings[i].src_page = page_count

\* C3: search_listings terminates and issues at most 20 page requests; when
\* every page brings a new listing and a cursor, it stops after the 20th
\* request and returns what the 20 pages accumulated.
C3_TerminatesWithinCap ==
    /\ [](n_requests <= 20)
    /\ <>(pc = "returned")
    /\ [](outcome = "cap" =>
            /\ pc = "returned"
            /\ n_requests = 20
            /\ ret = all_listings
            /\ \A p \in 1..20 : \E i \in 1..Len(ret) : ret[i].src_page = p)

C3_Witness ==
    /\ outcome = "cap"
    /\ pc = "returned"
    /\ n_requests = 20
    /\ Len(ret) >= 20

\* C4 as stated: when the request for page k fails, no further request is
\* issued, nothing is raised, and exactly the listings of pages 1..k-1 are
\* returned.
C4_FailureReturnsEarlierPages ==
    outcome \in Failures =>
        /\ pc = "returned"
        /\ ~ENABLED SendRequest
        /\ ~propagated
        /\ ret = before_page

\* C4 amended: as above, but a failure raised after the page's listings were
\* merged (a paginationInfo that is not an object) returns the listings of
\* pages 1..k-1 followed by the new listings of page k.
C4_FailureKeepsAccumulated ==
    outcome \in Failures =>
        /\ pc = "returned"
        /\ ~ENABLED SendRequest
        /\ ~propagated
        /\ ret = IF outcome = "pagination" THEN before_page \o page_new
                 ELSE before_page

C4_Witness ==
    /\ outcome = "pagination"
    /\ pc = "returned"
    /\ page_count = 2
    /\ before_page # <<>>
    /\ page_new # <<>>
    /\ ret = before_page \o page_new

\* C5: a fetched page that adds no new listing ends the search: no request
\* follows it, even with a non-empty nextPageCursor and fewer than 20 pages.
C5_EmptyPageStops ==
    /\ [][(pc = "await" /\ outcome' \notin Failures /\ page_new' = <<>>)
            => (pc' = "returned" /\ outcome' = "empty")]_vars
    /\ [][pc = "returned" => (pc' = "returned" /\ n_requests' = n_requests)]_vars

C5_Witness ==
    /\ outcome = "empty"
    /\ pc = "returned"
    /\ \E i \in 1..Len(page_results) : page_results[i].gt \in RoomIds(before_page)
    /\ Truthy(resp_next)
    /\ page_count < 20

\* C6: the first request carries no cursor; every later request carries the
\* nextPageCursor of the response just before it, which is then neither
\* absent nor empty.
C6_CursorProtocol ==
    [][n_requests' # n_requests =>
         /\ n_requests' = n_requests + 1
         /\ IF n_requests = 0
            THEN request' = <<>>
            ELSE /\ outcome = "ok"
                 /\ Truthy(resp_next)
                 /\ request' = <<resp_next>>]_vars

C6_Witness ==
    /\ pc = "await"
    /\ n_requests = 3
    /\ request = <<"c2">>
    /\ cursor = "c2"

\* C7: an entry without a derivable id is skipped alone: every summary has a
\* non-empty room_id, a merged page adds exactly its new listings whatever
\* underivable entries stand beside them, and the search goes on to the next
\* page when the page brought a listing and a cursor.
C7_UnderivableSkipped ==
    /\ \A i \in 1..Len(all_listings) : all_listings[i].room_id # <<>>
    /\ Merged =>
          /\ \A i \in 1..Len(page_results) :
                 (page_results[i].gt # <<>> /\ page_results[i].gt \notin RoomIds(before_page))
                     => page_results[i].gt \in RoomIds(page_new)
          /\ RoomIds(page_new) \subseteq
                 { page_results[i].gt : i \in 1..Len(page_results) } \ {<<>>}
          /\ Len(page_new) <=
                 Cardinality({ i \in 1..Len(page_results) : page_results[i].gt # <<>> })
          /\ all_listings = before_page \o page_new
          /\ (page_new # <<>> /\ Truthy(resp_next)) => outcome = "ok"

C7_Witness ==
    /\ pc = "await"
    /\ n_requests = 2
    /\ Len(page_results) = 2
    /\ page_results[1].gt = <<>>
    /\ page_results[1].id.present
    /\ ~page_results[1].id.b64ok
    /\ page_results[2].gt # <<>>
    /\ RoomIds(all_listings) = {page_results[2].gt}

-----------------------------------------------------------------------------
(* Properties of extract_ratings_and_badges *)

\* C8: extract_ratings_and_badges never raises: an absent detail gives the
\* all-empty record, and any present detail, whatever its type and the
\* types of its members, gives a record.
C8_ExtractIsTotal ==
    xout.state = "done" =>
        /\ ~xout.raised
        /\ xin = DetailsNone => (xout.result = EmptyRecord /\ xout.final_badges = <<>>)

\* the titles of the highlights that hold one of the badge keywords
KeywordTitlesOf(details) ==
    LET items == IF details.highlights.ty = "list" THEN details.highlights.items
                 ELSE <<>>
        isKw(h) == /\ h.ty = "dict"
                   /\ h.title.ty = "str"
                   /\ \E k \in {K_superhost, K_top, K_favorite, K_loved} :
                          IsSubstr(k, Lower(h.title.s))
        kept == SelectSeq(items, isKw)
    IN  [i \in 1..Len(kept) |-> kept[i].title.s]

\* one of the two texts holds the other, letter case aside
HoldsOther(a, b) ==
    IsSubstr(Lower(a), Lower(b)) \/ IsSubstr(Lower(b), Lower(a))

\* the elements of s at the indices of S, in order
RECURSIVE AtIndices(_, _, _)
AtIndices(s, S, i) ==
    IF i > Len(s) THEN <<>>
    ELSE (IF i \in S THEN <<s[i]>> ELSE <<>>) \o AtIndices(s, S, i + 1)

\* C9: the badge list is Superhost, Guest Favorite, Top X% (each if set),
\* then the keyword highlight titles in input order, a title being taken
\* exactly when it and no badge already listed hold one another, letter case
\* aside; superhost + guest favorite + tier 5 + "Maria is a Superhost" give
\* exactly Superhost, Guest Favorite, Top 5%.
C9_BadgeListOrder ==
    (xout.state = "done" /\ ~xout.raised /\ xin.truthy) =>
        LET res == xout.result
            fixed == (IF res.is_superhost THEN <<T_Superhost>> ELSE <<>>)
                     \o (IF res.is_guest_favorite THEN <<T_GuestFavorite>> ELSE <<>>)
                     \o (IF res.top_percent # <<>>
                         THEN << <<"T", "o", "p", " ">> \o res.top_percent \o <<"%">> >>
                         ELSE <<>>)
            titles == KeywordTitlesOf(xin)
            before(S, p) == fixed \o AtIndices(SubSeq(titles, 1, p - 1), S, 1)
            clash(S, p) == \E j \in 1..Len(before(S, p)) :
                               HoldsOther(before(S, p)[j], titles[p])
        IN  /\ \E S \in SUBSET (1..Len(titles)) :
                  /\ xout.final_badges = fixed \o AtIndices(titles, S, 1)
                  /\ \A p \in 1..Len(titles) : (p \in S) <=> ~clash(S, p)
            /\ res.badges = Join(T_Sep, xout.final_badges)
            /\ (/\ res.is_superhost
                /\ res.is_guest_favorite
                /\ res.top_percent = <<"5">>
                /\ titles = <<H_Maria>>)
                   => xout.final_badges = <<T_Superhost, T_GuestFavorite, TopLabel(<<"5">>)>>

C9_Witness ==
    /\ xout.state = "done"
    /\ ~xout.raised
    /\ xin.is_super_host = PyBool(TRUE)
    /\ xin.is_guest_favorite = PyBool(TRUE)
    /\ xin.highlights.ty = "list"
    /\ xin.highlights.items = <<Highlight("dict", PyStr(H_Maria), PyStr(H_Top5Homes))>>
    /\ xout.result.top_percent = <<"5">>
    /\ Len(xout.final_badges) = 3

-----------------------------------------------------------------------------
(* Properties of main *)

IdsOf(ls) == [i \in 1..Len(ls) |-> ls[i].room_id]

\* C10: for a non-empty search result of n summaries, whatever the detail
\* fetches give, enrichment fetches each summary's detail once, in discovery
\* order, runs to its end with success_count + error_count = n, and the
\* export gets those n records in the same order.
C10_EnrichmentVisitsEachOnce ==
    /\ mpc = "enrich" =>
          /\ found # <<>>
          /\ idx \in 1..(Len(found) + 1)
          /\ fetched = SubSeq(IdsOf(found), 1, idx - 1)
          /\ success_count + error_count = idx - 1
          /\ IdsOf(listings) = IdsOf(found)
          /\ ENABLED (EnrichFetchFails \/ EnrichWithDetails \/ ExportCsv)
    /\ mpc = "done" =>
          /\ fetched = IdsOf(found)
          /\ success_count + error_count = Len(found)
          /\ export_calls = 1
          /\ IdsOf(exported) = IdsOf(found)
          /\ exported = [i \in 1..Len(listings) |-> Row(listings[i])]

C10_Witness ==
    /\ mpc = "done"
    /\ Len(found) >= 2
    /\ success_count >= 1
    /\ error_count >= 1
    /\ Len(exported) = Len(found)

-----------------------------------------------------------------------------
\* the rating/badge columns of an export row that hold text
RatingBadgeColumns ==
    {"rating_overall", "rating_accuracy", "rating_cleanliness", "rating_checkin",
     "rating_communication", "rating_location", "rating_value", "reviews_count",
     "host_id", "host_name", "top_percent", "badges"}

RatingBadgeEmpty(row) == \A k \in RatingBadgeColumns : row[k] = <<>>

FailedFetches == { i \in 1..Len(detail_ok) : ~detail_ok[i] }

\* C11: every detail fetch that fails, yields nothing or makes the
\* extraction fail adds exactly one to the failure counter, and the export
\* row of that listing has every rating/badge field empty, whatever rating
\* and review count the search response carried for it.
C11_FailedListingHasEmptyFields ==
    /\ mpc \in {"enrich", "done"} => error_count = Cardinality(FailedFetches)
    /\ \A i \in FailedFetches :
          /\ RatingBadgeEmpty(Row(listings[i]))
          /\ mpc = "done" => RatingBadgeEmpty(exported[i])

-----------------------------------------------------------------------------
\* C12: when the search returns no listing, also after an error or an
\* exception on the first page, the run ends with no detail fetch and no
\* export; an export is produced only once, after the search has finished
\* and every listing it found has been through enrichment.
C12_EmptyRunAndExportOrder ==
    /\ mpc = "empty" =>
          /\ found = <<>>
          /\ fetched = <<>>
          /\ export_calls = 0
          /\ exported = <<>>
          /\ ~ENABLED NextRun
    /\ mpc = "search" => fetched = <<>> /\ export_calls = 0
    /\ mpc = "enrich" => pc = "idle" /\ export_calls = 0 /\ found # <<>>
    /\ export_calls > 0 =>
          /\ mpc = "done"
          /\ pc = "idle"
          /\ found # <<>>
          /\ Len(fetched) = Len(found)
          /\ Len(detail_ok) = Len(found)
          /\ Len(exported) = Len(found)
    /\ mpc = "done" => export_calls = 1

\* the search failed on its first page and the run ended empty
C12_Witness ==
    /\ mpc = "empty"
    /\ outcome \in Failures
    /\ n_requests = 1

-----------------------------------------------------------------------------
FilterKeys ==
    {"adults", "room_type", "min_bedrooms", "max_bedrooms", "guest_favorite",
     "luxe", "query"}

\* the upstream name of each filter field
UpstreamName ==
    [adults |-> "adults", room_type |-> "roomTypes", min_bedrooms |-> "minBedrooms",
     max_bedrooms |-> "maxBedrooms", guest_favorite |-> "guestFavorite",
     luxe |-> "luxe", query |-> "query"]

\* the request has a parameter that stands for filter field k
Embedded(params, k) ==
    \E i \in 1..Len(params) :
       \/ k # "query" /\ params[i].filterName = UpstreamName[k]
       \/ k = "query" /\ k \in DOMAIN filters /\ params[i].filterValues = <<filters[k]>>
       \/ k = "query" /\ params[i].filterName = UpstreamName[k]

\* C13: the request of every page, the first and each cursor-continued one,
\* embeds every filter field that is set, and has no parameter for a filter
\* field that is not set.
C13_SetFiltersEmbedded ==
    n_requests >= 1 =>
       \A k \in FilterKeys : (k \in DOMAIN filters) <=> Embedded(raw_params, k)

-----------------------------------------------------------------------------
\* a rating: digits, then possibly a point and digits
IsRatingText(s) ==
    /\ s # <<>>
    /\ \A i \in 1..Len(s) : s[i] \in RatingChars
    /\ s[1] \in Digits /\ s[Len(s)] \in Digits
    /\ Cardinality({ i \in 1..Len(s) : s[i] = "." }) <= 1

IsCountText(s) == s # <<>> /\ \A i \in 1..Len(s) : s[i] \in Digits

AllSpaces(s) == \A i \in 1..Len(s) : s[i] \in Spaces

\* text s is rating r, then possibly spaces, then count c in parentheses
IsRatingWithCount(s, r, c) ==
    /\ IsRatingText(r)
    /\ IsCountText(c)
    /\ \E k \in 0..Len(s) :
          /\ Len(s) = Len(r) + k + Len(c) + 2
          /\ AllSpaces(SubSeq(s, Len(r) + 1, Len(r) + k))
          /\ s = r \o SubSeq(s, Len(r) + 1, Len(r) + k) \o <<"(">> \o c \o <<")">>

Prefixes(s) == { SubSeq(s, 1, n) : n \in 0..Len(s) }
Infixes(s) == { SubSeq(s, m, n) : m \in 1..(Len(s) + 1), n \in 0..Len(s) }

\* C14: a rating followed by a parenthesised count gives that rating and
\* that count; a bare rating gives that rating and an empty count; any
\* other text gives an empty rating and an empty count; the decomposition
\* of a text never fails.
C14_RatingDecomposition ==
    rating_out.state = "done" =>
       LET s == rating_str
           withCount == { <<r, c>> \in Prefixes(s) \X Infixes(s) :
                             IsRatingWithCount(s, r, c) }
       IN  /\ \A rc \in withCount :
                 /\ rating_out.avg_rating = rc[1]
                 /\ rating_out.reviews_count = rc[2]
           /\ (withCount = {} /\ IsRatingText(s)) =>
                 /\ rating_out.avg_rating = s
                 /\ rating_out.reviews_count = <<>>
           /\ (withCount = {} /\ ~IsRatingText(s)) =>
                 /\ rating_out.avg_rating = <<>>
                 /\ rating_out.reviews_count = <<>>

-----------------------------------------------------------------------------
\* the keys of the extracted record
RecordKeys == DOMAIN EmptyRecord

\* the keys of a summary the merge leaves alone
KeptKeys ==
    {"room_id", "name", "price", "room_type", "person_capacity", "bedrooms",
     "beds", "bathrooms", "avg_rating", "is_guest_favorite_search"}

\* the records extract_ratings_and_badges gives for the blobs of a run
RunRecords ==
    { ExtractRatingsAndBadges(d).result :
        d \in { x \in RunDetails \cup {DetailsSparse} :
                  x.truthy /\ ~ExtractRatingsAndBadges(x).raised } }

Merged15(i) == i <= Len(detail_ok) /\ detail_ok[i]

====
